---- MODULE Spec2Model ----
(***************************************************************************)
(* A model of the image-variant binder (MI.bind with its two               *)
(* representation converters), of the transform units bound through it,    *)
(* and of the composite pipeline runner of monadage.                       *)
(***************************************************************************)
EXTENDS Integers, Sequences, FiniteSets, TLC

\* ------------------------------------------------------------------ bounds
\* Longest chain of binds explored.
MaxChain == 3
\* Largest image width and height explored.
MaxDim == 2
\* Largest number of member pipelines of a composite explored.
MaxMembers == 3

VARIABLES
    units,          \* the chain: the transform units bound one after the other
    cur,            \* what the chain expression currently evaluates to
    pos,            \* number of binds performed so far
    hist,           \* hist[k]: the value bind number k was called on
    log,            \* log[k]: what bind number k did
    fs,             \* the file system: path -> content, for the files that exist
    pipelines,      \* CompositePipeline.pipelines (member names, in order)
    input_path,     \* the caller's input path of process_image
    output_path,    \* the caller's output path of process_image
    cpc,            \* where CompositePipeline.process_image stands
    i,              \* the loop index of process_image (0-based, as in the code)
    current_input,  \* process_image's local current_input
    current_output, \* process_image's local current_output
    events,         \* calls into and returns from the members, in order
    calls,          \* one record per member call: its arguments and outcome
    call,           \* the invocation under study: get_pipeline(...) or Save(...)(...)
    answer,         \* what that invocation returned or raised
    batch,          \* the images of a batch, in the order the driver visits them
    bpc,            \* where the batch driver stands
    bi,             \* the entry of the batch the driver stands at, from 1
    visited,        \* what the batch driver did with each image, in order
    processed_count \* the CLI's processed_count / the web endpoint's len(results)

bindVars == <<units, cur, pos, hist, log>>
compVars == <<pipelines, input_path, output_path, cpc, i, current_input,
              current_output, events, calls>>
callVars == <<call, answer>>
batchVars == <<batch, bpc, bi, visited, processed_count>>
vars == <<units, cur, pos, hist, log, fs, pipelines, input_path, output_path,
          cpc, i, current_input, current_output, events, calls, call, answer,
          batch, bpc, bi, visited, processed_count>>

\* ------------------------------------------------------------ image variants
NoPath == <<>>
NoSize == <<0, 0>>

PngImage(size) ==
    [tag |-> "PngImage", size |-> size, svg_filepath |-> NoPath, err_msg |-> ""]

SvgImage(svg_filepath, logical_dimensions) ==
    [tag |-> "SvgImage", size |-> logical_dimensions,
     svg_filepath |-> svg_filepath, err_msg |-> ""]

ImageError(err_msg) ==
    [tag |-> "ImageError", size |-> NoSize, svg_filepath |-> NoPath,
     err_msg |-> err_msg]

\* A value of the chain: an MI object holding a variant, a bare variant (which
\* has no bind method), or an exception that left the chain expression.
MI(image) == [w |-> "MI", image |-> image, exc |-> ""]
Bare(image) == [w |-> "variant", image |-> image, exc |-> ""]
Raised(exc) == [w |-> "raised", image |-> ImageError(""), exc |-> exc]

\* --------------------------------------------------------------- file system
Exists(f, p) == p \in DOMAIN f

WriteFile(f, p, content) ==
    [q \in (DOMAIN f) \cup {p} |-> IF q = p THEN content ELSE f[q]]

RemoveFile(f, p) == [q \in (DOMAIN f) \ {p} |-> f[q]]

FileContent(fmt, size) == [fmt |-> fmt, size |-> size]

TempPbm == <<"temp", ".", "pbm">>
TempSvg == <<"temp", ".", "svg">>
TempPng == <<"temp", ".", "png">>
ScratchFiles == {TempPbm, TempSvg, TempPng}

\* ------------------------------------------------ representation converters
TracerOutcomes == {"ok", "fail", "nostart"}
RasterizerOutcomes == {"ok", "fail"}

ConvReturn(image, f, touched, ok) ==
    [raised |-> FALSE, exc |-> "", image |-> image, fs |-> f,
     touched |-> touched, ok |-> ok]

ConvRaise(exc, f, touched) ==
    [raised |-> TRUE, exc |-> exc, image |-> ImageError(""), fs |-> f,
     touched |-> touched, ok |-> FALSE]

\* MI.svg_to_png: reads the vector source, has the rasterizer write
\* temp_png_filepath at the logical dimensions, and loads that file.  An
\* unreadable source or a failing rasterizer raises.
svg_to_png(image, temp_png_filepath, f, rasterizer) ==
    IF ~Exists(f, image.svg_filepath)
    THEN ConvRaise("FileNotFoundError", f, {image.svg_filepath})
    ELSE IF rasterizer = "fail"
    THEN ConvRaise("RasterizerError", f, {image.svg_filepath})
    ELSE LET f1 == WriteFile(f, temp_png_filepath, FileContent("png", image.size))
         IN  ConvReturn(PngImage(f1[temp_png_filepath].size), f1,
                        {image.svg_filepath, temp_png_filepath}, TRUE)

\* A raster-to-vector conversion that records (height, width).
monochrome_png_to_svg_swapped(input_image, output_svg_path, f, tracer) ==
    LET size == <<input_image.size[2], input_image.size[1]>>
        f1 == WriteFile(f, TempPbm, FileContent("pbm", size))
    IN  IF tracer = "nostart"
        THEN ConvRaise("FileNotFoundError", f1, {TempPbm})
        ELSE IF tracer = "ok"
        THEN ConvReturn(SvgImage(output_svg_path, size),
                        RemoveFile(WriteFile(f1, output_svg_path,
                                             FileContent("svg", size)), TempPbm),
                        {TempPbm, output_svg_path}, TRUE)
        ELSE ConvReturn(SvgImage(output_svg_path, size), RemoveFile(f1, TempPbm),
                        {TempPbm}, FALSE)

\* MI.monochrome_png_to_svg: writes temp.pbm, runs the tracer (whose exit
\* status is not looked at; a tracer that cannot be started raises before the
\* clean-up), removes temp.pbm and returns a vector at output_svg_path.
monochrome_png_to_svg(input_image, output_svg_path, f, tracer) ==
    LET size == input_image.size
        f1 == WriteFile(f, TempPbm, FileContent("pbm", size))
    IN  IF tracer = "nostart"
        THEN ConvRaise("FileNotFoundError", f1, {TempPbm})
        ELSE IF tracer = "ok"
        THEN ConvReturn(SvgImage(output_svg_path, size),
                        RemoveFile(WriteFile(f1, output_svg_path,
                                             FileContent("svg", size)), TempPbm),
                        {TempPbm, output_svg_path}, TRUE)
        ELSE ConvReturn(SvgImage(output_svg_path, size), RemoveFile(f1, TempPbm),
                        {TempPbm}, FALSE)

\* -------------------------------------------------------------------- paths
\* A path is the sequence of its pieces; "/" separates directories and "."
\* starts an extension, as pathlib reads them.
\* The last position of tok in seq, 0 when it is not there.
LastIndexOf(seq, tok) ==
    LET at == {k \in 1..Len(seq) : seq[k] = tok}
    IN  IF at = {} THEN 0 ELSE CHOOSE k \in at : \A j \in at : j <= k

\* Path.parent ("." is the empty sequence) and Path.name
PathParent(path) ==
    LET n == LastIndexOf(path, "/") IN IF n <= 1 THEN <<>> ELSE SubSeq(path, 1, n - 1)

PathName(path) == SubSeq(path, LastIndexOf(path, "/") + 1, Len(path))

\* Path.suffix: from the last "." of the name on, unless the name starts or
\* ends with it.
PathSuffix(path) ==
    LET name == PathName(path)
        n == LastIndexOf(name, ".")
    IN  IF n > 1 /\ n < Len(name) THEN SubSeq(name, n, Len(name)) ELSE <<>>

\* Path.stem: the name without its suffix.
PathStem(path) ==
    LET name == PathName(path)
    IN  SubSeq(name, 1, Len(name) - Len(PathSuffix(path)))

\* parent / name
PathJoin(parent, name) == IF parent = <<>> THEN name ELSE parent \o <<"/">> \o name

\* str.lower() on the pieces of a file name.
Lower(tok) ==
    CASE tok = "PNG" -> "png"
      [] tok = "JPG" -> "jpg"
      [] OTHER -> tok

LowerSeq(seq) == [k \in 1..Len(seq) |-> Lower(seq[k])]

\* The format PIL's Image.save picks from the extension of the file name;
\* it raises ValueError for an extension it does not know.
PilFormat(outpath) ==
    LET ext == LowerSeq(PathSuffix(outpath))
    IN  IF ext = <<".", "png">> THEN "png"
        ELSE IF ext \in {<<".", "jpg">>, <<".", "jpeg">>} THEN "jpg"
        ELSE IF ext \in {<<".", "bmp">>, <<".", "gif">>, <<".", "tiff">>,
                         <<".", "tif">>, <<".", "webp">>} THEN ext[2]
        ELSE "unknown"

\* shlex.split: the words of a command line, cut at white space.
RECURSIVE ShlexSplit(_)
ShlexSplit(tokens) ==
    LET n == LastIndexOf(tokens, " ")
        word == SubSeq(tokens, n + 1, Len(tokens))
        before == IF n = 0 THEN <<>> ELSE ShlexSplit(SubSeq(tokens, 1, n - 1))
    IN  IF word = <<>> THEN before ELSE Append(before, word)

\* subprocess.call of cp, whose exit status is not looked at: with two
\* operands the first is copied to the second when it exists; with more, the
\* last must be a directory, and no path explored here is one.
cp(argv, f) ==
    IF Len(argv) = 3 /\ Exists(f, argv[2])
    THEN WriteFile(f, argv[3], f[argv[2]])
    ELSE f

\* ------------------------------------------------------------ transform units
Last4(path) ==
    IF Len(path) >= 2 THEN SubSeq(path, Len(path) - 1, Len(path)) ELSE path

\* Save.__init__ without its ".svg" case.
SaveMode_no_svg(outpath) ==
    IF Last4(outpath) = <<".", "png">> THEN "PngImage" ELSE "ImageError"

\* Save.__init__: the mode follows from the last four characters of outpath.
SaveMode(outpath) ==
    IF Last4(outpath) = <<".", "png">> THEN "PngImage"
    ELSE IF Last4(outpath) = <<".", "svg">> THEN "SvgImage"
    ELSE "ImageError"

Save(outpath) ==
    [kind |-> "Save", mode |-> SaveMode(outpath), outpath |-> outpath,
     err_msg |-> ""]

\* Quantize: get_mode() is PngImage.
Quantize ==
    [kind |-> "Quantize", mode |-> "PngImage", outpath |-> NoPath, err_msg |-> ""]

\* The MI-returning functions of monad_imtools, with the mode they are bound in.
mi_quantize_to_n_colors ==
    [kind |-> "mi_quantize_to_n_colors", mode |-> "PngImage", outpath |-> NoPath,
     err_msg |-> ""]

mi_to_svg ==
    [kind |-> "mi_to_svg", mode |-> "SvgImage", outpath |-> NoPath, err_msg |-> ""]

\* A callable of bind's parameter type that answers MI(ImageError(err_msg)).
FailingUnit(err_msg) ==
    [kind |-> "fail", mode |-> "PngImage", outpath |-> NoPath, err_msg |-> err_msg]

\* Save.__call__: a raster is written by Image.save, a vector is copied by
\* the command line f"cp {image.svg_filepath} {self.outpath}", anything else
\* gives an ImageError.
Save_call(u, image, f) ==
    IF image.tag = "PngImage"
    THEN IF PilFormat(u.outpath) = "unknown"
         THEN [ret |-> Raised("ValueError"), fs |-> f]
         ELSE [ret |-> Bare(image),
               fs |-> WriteFile(f, u.outpath,
                                FileContent(PilFormat(u.outpath), image.size))]
    ELSE IF image.tag = "SvgImage"
    THEN [ret |-> Bare(image),
          fs |-> cp(ShlexSplit(<<"cp", " ">> \o image.svg_filepath \o <<" ">>
                               \o u.outpath), f)]
    ELSE [ret |-> Bare(ImageError("TODO make image saving.")), fs |-> f]

\* Quantize.__call__
Quantize_call(u, image, f) ==
    IF image.tag = "PngImage"
    THEN [ret |-> Bare(PngImage(image.size)), fs |-> f]
    ELSE [ret |-> Raised("AssertionError"), fs |-> f]

\* The unit's apply operation: f(image) in bind.
Apply(u, image, f) ==
    CASE u.kind = "Save" -> Save_call(u, image, f)
      [] u.kind = "Quantize" -> Quantize_call(u, image, f)
      [] u.kind = "mi_quantize_to_n_colors" ->
            IF image.tag = "PngImage"
            THEN [ret |-> MI(PngImage(image.size)), fs |-> f]
            ELSE [ret |-> Raised("AttributeError"), fs |-> f]
      [] u.kind = "mi_to_svg" -> [ret |-> MI(image), fs |-> f]
      [] OTHER -> [ret |-> MI(ImageError(u.err_msg)), fs |-> f]

\* -------------------------------------------------------------------- bind
BindResult(ret, f, branch, args, convs, touched, convOk) ==
    [ret |-> ret, fs |-> f, branch |-> branch, args |-> args, convs |-> convs,
     touched |-> touched, convOk |-> convOk]

\* f(image), as one step of bind.
Invoke(u, image, f, branch, convs, touched, convOk) ==
    LET r == Apply(u, image, f)
    IN  BindResult(r.ret, r.fs, branch, <<image>>, convs, touched, convOk)

\* f(conversion(...)): the unit runs on what the conversion returned, and an
\* exception of the conversion leaves bind.
InvokeConverted(u, c, f, kind) ==
    IF c.raised
    THEN BindResult(Raised(c.exc), c.fs, "converted", <<>>, <<kind>>, c.touched, FALSE)
    ELSE Invoke(u, c.image, c.fs, "converted", <<kind>>, c.touched, c.ok)

\* case PngImage() that, for a vector unit, traces the raster and traces the
\* same raster again when the first trace left no output.
BindPng_retrace(image, u, f, tracer) ==
    IF u.mode = "PngImage"
    THEN Invoke(u, image, f, "direct", <<>>, {}, TRUE)
    ELSE LET c1 == monochrome_png_to_svg(image, TempSvg, f, tracer)
             c2 == monochrome_png_to_svg(image, TempSvg, c1.fs, "ok")
         IN  IF c1.raised \/ c1.ok
             THEN InvokeConverted(u, c1, f, "toVector")
             ELSE Invoke(u, c2.image, c2.fs, "converted",
                         <<"toVector", "toVector">>, c2.touched, TRUE)

\* case PngImage() of MI.bind
BindPng(image, u, f, tracer) ==
    IF u.mode = "PngImage"
    THEN Invoke(u, image, f, "direct", <<>>, {}, TRUE)
    ELSE IF u.mode = "SvgImage"
    THEN InvokeConverted(u, monochrome_png_to_svg(image, TempSvg, f, tracer), f,
                         "toVector")
    ELSE BindResult(Bare(ImageError("Mode of bind not recognized")), f,
                    "unrecognized", <<>>, <<>>, {}, TRUE)

\* case SvgImage() that rasterizes whatever the unit asks for.
BindSvg_always_convert(image, u, f, rasterizer) ==
    InvokeConverted(u, svg_to_png(image, TempPng, f, rasterizer), f, "toRaster")

\* case SvgImage() of MI.bind
BindSvg(image, u, f, rasterizer) ==
    IF u.mode = "SvgImage"
    THEN Invoke(u, image, f, "direct", <<>>, {}, TRUE)
    ELSE IF u.mode = "PngImage"
    THEN InvokeConverted(u, svg_to_png(image, TempPng, f, rasterizer), f,
                         "toRaster")
    ELSE BindResult(Bare(ImageError("Mode of bind not recognized")), f,
                    "unrecognized", <<>>, <<>>, {}, TRUE)

\* case ImageError() that hands the error to the unit.
BindError_invokes(image, u, f) ==
    Invoke(u, image, f, "error", <<>>, {}, TRUE)

\* case ImageError() of MI.bind: self.image is returned, not an MI.
BindError(image, u, f) ==
    BindResult(Bare(image), f, "error", <<>>, <<>>, {}, TRUE)

\* MI.bind(self, f, mode)
MI_bind(image, u, f, tracer, rasterizer) ==
    CASE image.tag = "PngImage" -> BindPng(image, u, f, tracer)
      [] image.tag = "SvgImage" -> BindSvg(image, u, f, rasterizer)
      [] OTHER -> BindError(image, u, f)

\* value.bind(...) in a chain: only an MI has the method; on a bare variant the
\* attribute lookup raises.
BindStep(value, u, f, tracer, rasterizer) ==
    IF value.w = "MI"
    THEN MI_bind(value.image, u, f, tracer, rasterizer)
    ELSE BindResult(Raised("AttributeError"), f, "nobind", <<>>, <<>>, {}, TRUE)

\* ------------------------------------------------------------ the bind chain
InSvg == <<"in", ".", "svg">>
OutPng == <<"out", ".", "png">>
OutSvg == <<"out", ".", "svg">>
OutJpg == <<"out", ".", "jpg">>

Sizes == (1..MaxDim) \X (1..MaxDim)

\* The units a chain is built from.
UnitSet ==
    {mi_quantize_to_n_colors, mi_to_svg, Quantize, FailingUnit("boom"),
     Save(OutPng), Save(OutSvg), Save(OutJpg)}

Chains == UNION {[1..n -> UnitSet] : n \in 1..MaxChain}

\* The values a chain starts from: MI(...) as its callers construct it.
InitialValues ==
    {MI(PngImage(sz)) : sz \in Sizes}
        \cup {MI(SvgImage(InSvg, sz)) : sz \in Sizes}
        \cup {MI(ImageError("e0"))}

\* The files present before the chain runs: the vector source, or not.
InitialFs ==
    {[q \in D |-> FileContent("svg", <<1, 1>>)] : D \in SUBSET {InSvg}}

CallIdle ==
    /\ call = <<>>
    /\ answer = <<>>

BatchIdle ==
    /\ batch = <<>>
    /\ bpc = "idle"
    /\ bi = 0
    /\ visited = <<>>
    /\ processed_count = 0

CompositeIdle ==
    /\ pipelines = <<>>
    /\ input_path = NoPath
    /\ output_path = NoPath
    /\ cpc = "idle"
    /\ i = 0
    /\ current_input = NoPath
    /\ current_output = NoPath
    /\ events = <<>>
    /\ calls = <<>>

Init ==
    /\ units \in Chains
    /\ cur \in InitialValues
    /\ fs \in InitialFs
    /\ pos = 0
    /\ hist = <<>>
    /\ log = <<>>
    /\ CompositeIdle
    /\ CallIdle
    /\ BatchIdle

\* One more bind of the chain expression v.bind(u1).bind(u2)...; an exception
\* ends the expression.
Bind ==
    /\ pos < Len(units)
    /\ cur.w # "raised"
    /\ \E tracer \in TracerOutcomes, rasterizer \in RasterizerOutcomes :
          LET r == BindStep(cur, units[pos + 1], fs, tracer, rasterizer)
          IN  /\ cur' = r.ret
              /\ fs' = r.fs
              /\ log' = Append(log, [branch |-> r.branch, args |-> r.args,
                                     convs |-> r.convs, touched |-> r.touched,
                                     convOk |-> r.convOk, fsBefore |-> fs])
    /\ hist' = Append(hist, cur)
    /\ pos' = pos + 1
    /\ UNCHANGED <<units, pipelines, input_path, output_path, cpc, i,
                   current_input, current_output, events, calls>>
    /\ UNCHANGED <<callVars, batchVars>>

Next == Bind

Spec == Init /\ [][Next]_vars

\* The value bind number k returned (or the exception it raised).
Result(k) == IF k < pos THEN hist[k + 1] ELSE cur

\* ------------------------------------------------------- claims on the binder
FsAfter(k) == IF k < pos THEN log[k + 1].fsBefore ELSE fs

OnMI(k, tag) == hist[k].w = "MI" /\ hist[k].image.tag = tag

RECURSIVE Conversions(_)
Conversions(k) == IF k = 0 THEN 0 ELSE Len(log[k].convs) + Conversions(k - 1)

\* C1: a bind on an Error value returns that same Error, message unchanged,
\* and the unit's apply is not invoked during that bind.
C1_ErrorBindReturnsError ==
    \A k \in 1..pos :
        OnMI(k, "ImageError") =>
            /\ Result(k).w # "raised"
            /\ Result(k).image = hist[k].image
            /\ log[k].args = <<>>

C1_Witness ==
    \E k \in 1..pos :
        /\ OnMI(k, "ImageError")
        /\ hist[k].image.err_msg = "boom"
        /\ Result(k).image = ImageError("boom")

\* C2: once a step of a chain has produced an Error, every later bind of the
\* chain is performed without raising, applies no unit, and leaves the Error of
\* the first failing step as the chain's value.
C2_ShortCircuitChain ==
    \A j \in 1..pos :
        (/\ hist[j].image.tag # "ImageError"
         /\ Result(j).w # "raised"
         /\ Result(j).image.tag = "ImageError") =>
            \A k \in (j + 1)..pos :
                /\ Result(k).w # "raised"
                /\ Result(k).image = Result(j).image
                /\ log[k].args = <<>>

\* C3: on a Raster value and a unit requiring Vector, bind converts with
\* toVector and applies the unit to the resulting Vector; a failed conversion
\* is returned as an Error and the unit is not invoked.
C3_RasterToVectorUnit ==
    \A k \in 1..pos :
        (OnMI(k, "PngImage") /\ units[k].mode = "SvgImage") =>
            /\ log[k].convs = <<"toVector">>
            /\ IF log[k].convOk
               THEN log[k].args = <<SvgImage(TempSvg, hist[k].image.size)>>
               ELSE /\ log[k].args = <<>>
                    /\ Result(k).w # "raised"
                    /\ Result(k).image.tag = "ImageError"

\* C4: on a Vector value and a unit requiring Raster, bind converts with
\* toRaster before the unit runs, the unit receives a Raster of the Vector's
\* logical dimensions, and a failed conversion is returned as an Error without
\* invoking the unit.
C4_VectorToRasterUnit ==
    \A k \in 1..pos :
        (OnMI(k, "SvgImage") /\ units[k].mode = "PngImage") =>
            /\ log[k].convs = <<"toRaster">>
            /\ IF log[k].convOk
               THEN log[k].args = <<PngImage(hist[k].image.size)>>
               ELSE /\ log[k].args = <<>>
                    /\ Result(k).w # "raised"
                    /\ Result(k).image.tag = "ImageError"

\* C5: when the value's representation equals the unit's required input, bind
\* applies the unit exactly once to that same value, converts nothing and
\* leaves every scratch file as it was.
C5_MatchingRepresentationDirect ==
    \A k \in 1..pos :
        (/\ hist[k].w = "MI"
         /\ hist[k].image.tag \in {"PngImage", "SvgImage"}
         /\ units[k].mode = hist[k].image.tag) =>
            /\ log[k].args = <<hist[k].image>>
            /\ log[k].convs = <<>>
            /\ log[k].touched \cap ScratchFiles = {}
            /\ \A p \in ScratchFiles :
                  /\ Exists(FsAfter(k), p) <=> Exists(log[k].fsBefore, p)
                  /\ Exists(FsAfter(k), p) => FsAfter(k)[p] = log[k].fsBefore[p]

C5_Witness ==
    \E k \in 1..pos :
        /\ OnMI(k, "SvgImage")
        /\ units[k].mode = "SvgImage"
        /\ log[k].args = <<hist[k].image>>
        /\ \E j \in 1..pos : OnMI(j, "PngImage") /\ units[j].mode = "PngImage"

\* C6: every bind step performs at most one representation conversion, none
\* when the representation matches or the value is an Error, so a chain never
\* performs more conversions than steps.
C6_AtMostOneConversionPerStep ==
    /\ \A k \in 1..pos :
          /\ Len(log[k].convs) <= 1
          /\ (hist[k].w = "MI" /\ hist[k].image.tag = units[k].mode)
                => log[k].convs = <<>>
          /\ OnMI(k, "ImageError") => log[k].convs = <<>>
    /\ Conversions(pos) <= pos

C6_Witness ==
    /\ pos >= 2
    /\ Conversions(pos) = pos
    /\ \E k \in 1..pos : log[k].convs = <<"toVector">> /\ ~log[k].convOk

MemberNames == {"mosaic", "glitch_art"}

\* A temp_suffix that leaves out the step index.
TempSuffix_no_index(idx, name) == <<"_", "temp", "_", name>>

\* temp_suffix = f"_temp_{i}_{pipeline.get_name()}"
TempSuffix(idx, name) == <<"_", "temp", "_", ToString(idx), "_", name>>

\* output_path.parent / f"{output_path.stem}{temp_suffix}.png"
IntermediatePath(out, idx, name) ==
    PathJoin(PathParent(out), PathStem(out) \o TempSuffix(idx, name) \o <<".", "png">>)

\* A loop body that sends every member, the last too, to a temporary file.
CurrentOutput_always_temp(out, idx, members) ==
    IntermediatePath(out, idx, members[idx + 1])

\* The if of the loop body: where member idx (0-based) writes.
CurrentOutput(out, idx, members) ==
    IF idx = Len(members) - 1
    THEN out
    ELSE IntermediatePath(out, idx, members[idx + 1])

\* A loop body that forgets to hand the output on.
NextInput_keeps_input(cin, cout) == cin

\* current_input = current_output, at the end of the loop body.
NextInput(cin, cout) == cout

\* A loop that runs its first member over and over.
NextIndex_stuck(idx) == 0

\* The loop moves on to the next member.
NextIndex(idx) == idx + 1

InputPaths == {<<"in", "/", "a", ".", "jpg">>}
OutputPaths ==
    {<<"out", "/", "a", "_", "x", ".", "png">>, <<"a", ".", "png">>,
     <<"out", "/", "a">>,
     <<"a", "_", "temp", "_", "0", "_", "mosaic", ".", "png">>}

\* The input image exists or not when the composite runs.
CompositeInitialFs ==
    {[q \in D |-> FileContent("jpg", <<1, 1>>)] : D \in SUBSET InputPaths}

BindIdle ==
    /\ units = <<>>
    /\ cur = MI(ImageError(""))
    /\ pos = 0
    /\ hist = <<>>
    /\ log = <<>>

\* After CompositePipeline(pipelines) is constructed.
InitComposite ==
    /\ BindIdle
    /\ CallIdle
    /\ BatchIdle
    /\ pipelines \in UNION {[1..n -> MemberNames] : n \in 0..MaxMembers}
    /\ fs \in CompositeInitialFs
    /\ input_path = NoPath
    /\ output_path = NoPath
    /\ cpc = "idle"
    /\ i = 0
    /\ current_input = NoPath
    /\ current_output = NoPath
    /\ events = <<>>
    /\ calls = <<>>

\* process_image(input_path, output_path) is entered: current_input = input_path.
EnterProcessImage ==
    /\ cpc = "idle"
    /\ \E inp \in InputPaths, out \in OutputPaths :
          /\ input_path' = inp
          /\ output_path' = out
          /\ current_input' = inp
    /\ cpc' = "loop"
    /\ i' = 0
    /\ UNCHANGED <<bindVars, callVars, batchVars, fs, pipelines, current_output, events, calls>>

\* One pass of the loop up to the call pipeline.process_image(current_input,
\* current_output).
CallMember ==
    /\ cpc = "loop"
    /\ i < Len(pipelines)
    /\ LET out == CurrentOutput(output_path, i, pipelines)
       IN  /\ current_output' = out
           /\ calls' = Append(calls, [member |-> i, name |-> pipelines[i + 1],
                                      input |-> current_input, output |-> out,
                                      outcome |-> "running"])
    /\ events' = Append(events, <<"call", i>>)
    /\ cpc' = "member"
    /\ UNCHANGED <<bindVars, callVars, batchVars, fs, pipelines, input_path, output_path, i,
                   current_input>>

SetOutcome(outcome) ==
    [calls EXCEPT ![Len(calls)].outcome = outcome]

\* The member loaded its input, ran its chain and saved to its output path.
MemberReturnsSaved ==
    /\ cpc = "member"
    /\ Exists(fs, current_input)
    /\ fs' = WriteFile(fs, current_output, FileContent("png", fs[current_input].size))
    /\ calls' = SetOutcome("saved")
    /\ events' = Append(events, <<"return", i>>)
    /\ current_input' = NextInput(current_input, current_output)
    /\ i' = NextIndex(i)
    /\ cpc' = "loop"
    /\ UNCHANGED <<bindVars, callVars, batchVars, pipelines, input_path, output_path, current_output>>

\* The member's chain ended in an Error value: nothing is written, and
\* process_image returns None as always.
MemberReturnsError ==
    /\ cpc = "member"
    /\ Exists(fs, current_input)
    /\ calls' = SetOutcome("error")
    /\ events' = Append(events, <<"return", i>>)
    /\ current_input' = NextInput(current_input, current_output)
    /\ i' = NextIndex(i)
    /\ cpc' = "loop"
    /\ UNCHANGED <<bindVars, callVars, batchVars, fs, pipelines, input_path, output_path,
                   current_output>>

\* The member raised (always so when its input cannot be opened): the
\* exception leaves process_image.
MemberRaises ==
    /\ cpc = "member"
    /\ calls' = SetOutcome("raised")
    /\ events' = Append(events, <<"raise", i>>)
    /\ cpc' = "raised"
    /\ UNCHANGED <<bindVars, callVars, batchVars, fs, pipelines, input_path, output_path, i,
                   current_input, current_output>>

\* The loop is over: process_image returns.
ReturnProcessImage ==
    /\ cpc = "loop"
    /\ i >= Len(pipelines)
    /\ cpc' = "returned"
    /\ UNCHANGED <<bindVars, callVars, batchVars, fs, pipelines, input_path, output_path, i,
                   current_input, current_output, events, calls>>

NextComposite ==
    \/ EnterProcessImage
    \/ CallMember
    \/ MemberReturnsSaved
    \/ MemberReturnsError
    \/ MemberRaises
    \/ ReturnProcessImage

SpecComposite == InitComposite /\ [][NextComposite]_vars

\* ------------------------------------------- claims on the composite pipeline
\* C8: if the processing of member k produces an error, as an Error value or
\* as a raised failure, no member after k is invoked and the caller of the
\* composite observes the failure of member k.
C8_CompositeStopsAtFailingMember ==
    \A k \in 1..Len(calls) :
        calls[k].outcome \in {"error", "raised"} =>
            /\ Len(calls) = k
            /\ cpc # "returned"
            /\ cpc = "raised" => events[Len(events)] = <<"raise", calls[k].member>>

\* C9: the members run strictly in list order: member i has returned before
\* member i+1 is called, each member is called at most once, and no two
\* members are active at the same time.
C9_MembersRunInOrder ==
    /\ \A e \in 1..Len(events) :
          IF events[e][1] = "call"
          THEN /\ e = 1 => events[e][2] = 0
               /\ e > 1 => events[e - 1] = <<"return", events[e][2] - 1>>
               /\ events[e][2] < Len(pipelines)
          ELSE e > 1 /\ events[e - 1] = <<"call", events[e][2]>>
    /\ \A a, b \in 1..Len(events) :
          (events[a][1] = "call" /\ events[b] = events[a]) => a = b
    /\ cpc = "member" <=> (events # <<>> /\ events[Len(events)][1] = "call")

C9_Witness ==
    /\ cpc = "returned"
    /\ Len(pipelines) = 2
    /\ events = <<<<"call", 0>>, <<"return", 0>>, <<"call", 1>>, <<"return", 1>>>>

\* C10: the first member reads the caller's input path, every member but the
\* last writes to a generated intermediate path that is the input path of the
\* next member, and only the last member writes to the caller's output path.
C10_PathThreading ==
    \A k \in 1..Len(calls) :
        /\ calls[k].input = IF k = 1 THEN input_path ELSE calls[k - 1].output
        /\ k < Len(pipelines) =>
              /\ calls[k].output = IntermediatePath(output_path, k - 1, pipelines[k])
              /\ calls[k].output # output_path
        /\ k = Len(pipelines) => calls[k].output = output_path

C10_Witness ==
    /\ Len(pipelines) >= 2
    /\ Len(calls) = Len(pipelines)
    /\ calls[Len(calls)].outcome = "saved"
    /\ calls[Len(calls)].input = calls[Len(calls) - 1].output
    /\ calls[Len(calls)].input # input_path
    /\ Exists(fs, output_path)

\* C11: when the composite's process has ended, by return or by a member's
\* failure, none of the intermediate files it created still exists.
C11_IntermediatesDeletedAtEnd ==
    cpc \in {"returned", "raised"} =>
        \A k \in 1..Len(calls) :
            calls[k].output # output_path => ~Exists(fs, calls[k].output)

\* C12: within one run the generated intermediate paths are pairwise distinct,
\* also when a pipeline name occurs more than once, and none of them is the
\* caller's output path.
C12_IntermediatePathsDistinct ==
    /\ \A j, k \in 1..Len(calls) : j # k => calls[j].output # calls[k].output
    /\ \A k \in 1..Len(calls) :
          k < Len(pipelines) => calls[k].output # output_path

C12_Witness ==
    /\ Len(pipelines) >= 3
    /\ pipelines[1] = pipelines[2]
    /\ Len(calls) = Len(pipelines)
    /\ calls[1].outcome = "saved" /\ calls[2].outcome = "saved"
    /\ Exists(fs, calls[1].output) /\ Exists(fs, calls[2].output)

\* ------------------------------------------------------------------ registry
\* Longest list of names handed to get_pipeline.
MaxNames == 3

\* A registry in which two neighbouring entries name each other's class.
PIPELINES_swapped ==
    <<<<"four_corners", "FourCornersPipeline">>,
      <<"mosaic", "DynamicMosaicPipeline">>,
      <<"dynamic_mosaic", "MosaicPipeline">>,
      <<"glitch_art", "GlitchArtPipeline">>,
      <<"ascii_art", "AsciiArtPipeline">>,
      <<"vaporwave", "VaporwavePipeline">>,
      <<"kaleidoscope", "KaleidoscopePipeline">>,
      <<"pixel_sort", "PixelSortPipeline">>,
      <<"oil_painting", "OilPaintingPipeline">>,
      <<"neon_edge", "NeonEdgePipeline">>,
      <<"datamosh", "DatamoshPipeline">>,
      <<"fractal_spiral", "FractalSpiralPipeline">>,
      <<"comic_book", "ComicBookPipeline">>,
      <<"geometric_telescope", "GeometricTelescopePipeline">>,
      <<"crystal_refraction", "CrystalRefractionPipeline">>,
      <<"liquid_metal", "LiquidMetalPipeline">>,
      <<"paper_cutout", "PaperCutoutPipeline">>,
      <<"digital_rain", "DigitalRainPipeline">>,
      <<"origami_fold", "OrigamiFoldPipeline">>>>

\* PIPELINES: the keys, in the order of the dict, each with its class.
PIPELINES ==
    <<<<"four_corners", "FourCornersPipeline">>,
      <<"mosaic", "MosaicPipeline">>,
      <<"dynamic_mosaic", "DynamicMosaicPipeline">>,
      <<"glitch_art", "GlitchArtPipeline">>,
      <<"ascii_art", "AsciiArtPipeline">>,
      <<"vaporwave", "VaporwavePipeline">>,
      <<"kaleidoscope", "KaleidoscopePipeline">>,
      <<"pixel_sort", "PixelSortPipeline">>,
      <<"oil_painting", "OilPaintingPipeline">>,
      <<"neon_edge", "NeonEdgePipeline">>,
      <<"datamosh", "DatamoshPipeline">>,
      <<"fractal_spiral", "FractalSpiralPipeline">>,
      <<"comic_book", "ComicBookPipeline">>,
      <<"geometric_telescope", "GeometricTelescopePipeline">>,
      <<"crystal_refraction", "CrystalRefractionPipeline">>,
      <<"liquid_metal", "LiquidMetalPipeline">>,
      <<"paper_cutout", "PaperCutoutPipeline">>,
      <<"digital_rain", "DigitalRainPipeline">>,
      <<"origami_fold", "OrigamiFoldPipeline">>>>

\* get_name() of each pipeline class.
ClassGetName ==
    <<<<"AsciiArtPipeline", "ascii_art">>,
      <<"ComicBookPipeline", "comic_book">>,
      <<"CoolVariationsPipeline", "cool_variations">>,
      <<"CrystalRefractionPipeline", "crystal_refraction">>,
      <<"DatamoshPipeline", "datamosh">>,
      <<"DigitalRainPipeline", "digital_rain">>,
      <<"DynamicMosaicPipeline", "dynamic_mosaic">>,
      <<"FourCornersPipeline", "four_corners">>,
      <<"FractalSpiralPipeline", "fractal_spiral">>,
      <<"GeometricTelescopePipeline", "geometric_telescope">>,
      <<"GlitchArtPipeline", "glitch_art">>,
      <<"KaleidoscopePipeline", "kaleidoscope">>,
      <<"LiquidMetalPipeline", "liquid_metal">>,
      <<"MosaicPipeline", "mosaic">>,
      <<"NeonEdgePipeline", "neon_edge">>,
      <<"OilPaintingPipeline", "oil_painting">>,
      <<"OrigamiFoldPipeline", "origami_fold">>,
      <<"PaperCutoutPipeline", "paper_cutout">>,
      <<"PixelSortPipeline", "pixel_sort">>,
      <<"VaporwavePipeline", "vaporwave">>>>

RegistryKeys == [k \in 1..Len(PIPELINES) |-> PIPELINES[k][1]]

\* names in PIPELINES
Registered(name) == \E k \in 1..Len(PIPELINES) : PIPELINES[k][1] = name

\* PIPELINES[name]
RegistryClass(name) ==
    PIPELINES[CHOOSE k \in 1..Len(PIPELINES) : PIPELINES[k][1] = name][2]

\* PIPELINES[name](**kwargs): a new object (id tells the objects of one call
\* apart) whose Pipeline.__init__ keeps the keyword arguments.
Construct(name, kwargs, id) ==
    [cls |-> RegistryClass(name), kwargs |-> kwargs, id |-> id]

\* sep.join(parts)
Join(parts, sep) ==
    IF parts = <<>> THEN <<>>
    ELSE [k \in 1..(2 * Len(parts) - 1) |->
             IF k % 2 = 1 THEN parts[(k + 1) \div 2] ELSE sep]

\* p.get_name() of a pipeline instance
InstanceName(p) ==
    ClassGetName[CHOOSE k \in 1..Len(ClassGetName) : ClassGetName[k][1] = p.cls][2]

\* [p.get_name() for p in self.pipelines]
MemberNameList(members) == [k \in 1..Len(members) |-> InstanceName(members[k])]

Resolved(kind, members, unknown, available) ==
    [kind |-> kind, pipelines |-> members, unknown |-> unknown,
     available |-> available]

\* An error message that does not list the available pipelines.
UnknownPipeline_no_list(name) ==
    Resolved("ValueError", <<>>, name, <<>>)

\* raise ValueError(f"Unknown pipeline '{name}'. Available pipelines: {available}")
UnknownPipeline(name) ==
    Resolved("ValueError", <<>>, name, Join(RegistryKeys, ", "))

\* The loop of get_pipeline's list branch that drops a name it has seen.
RECURSIVE BuildMembers_dedup(_, _, _)
BuildMembers_dedup(names, kwargs, built) ==
    IF names = <<>> THEN Resolved("composite", built, "", <<>>)
    ELSE IF ~Registered(names[1]) THEN UnknownPipeline(names[1])
    ELSE IF \E k \in 1..Len(built) : built[k].cls = RegistryClass(names[1])
    THEN BuildMembers_dedup(Tail(names), kwargs, built)
    ELSE BuildMembers_dedup(Tail(names), kwargs,
                            Append(built, Construct(names[1], kwargs, Len(built) + 1)))

\* The loop of get_pipeline's list branch that passes over a name it does
\* not know.
RECURSIVE BuildMembers_skip_unknown(_, _, _)
BuildMembers_skip_unknown(names, kwargs, built) ==
    IF names = <<>> THEN Resolved("composite", built, "", <<>>)
    ELSE IF ~Registered(names[1])
    THEN BuildMembers_skip_unknown(Tail(names), kwargs, built)
    ELSE BuildMembers_skip_unknown(Tail(names), kwargs,
                                   Append(built, Construct(names[1], kwargs, Len(built) + 1)))

\* The loop of get_pipeline's list branch: the first unknown name raises,
\* otherwise one instance per name is appended.
RECURSIVE BuildMembers(_, _, _)
BuildMembers(names, kwargs, built) ==
    IF names = <<>> THEN Resolved("composite", built, "", <<>>)
    ELSE IF ~Registered(names[1]) THEN UnknownPipeline(names[1])
    ELSE BuildMembers(Tail(names), kwargs,
                      Append(built, Construct(names[1], kwargs, Len(built) + 1)))

\* get_pipeline(names, **kwargs); a request is a single name or a list.
get_pipeline(request, kwargs) ==
    IF request.isstr
    THEN IF ~Registered(request.names[1])
         THEN UnknownPipeline(request.names[1])
         ELSE Resolved("pipeline", <<Construct(request.names[1], kwargs, 1)>>, "", <<>>)
    ELSE BuildMembers(request.names, kwargs, <<>>)

\* get_name() of what get_pipeline returned
get_name(p) ==
    IF p.kind = "pipeline" THEN <<InstanceName(p.pipelines[1])>>
    ELSE Join(MemberNameList(p.pipelines), "+")

\* The names requests are made of: every key of the registry and two names
\* that are not registered (one of them a pipeline class outside the registry).
UnknownNames == {"unknown_name", "cool_variations"}
SingleNames == {RegistryKeys[k] : k \in 1..Len(RegistryKeys)} \cup UnknownNames
ListNames == {"mosaic", "glitch_art", "unknown_name", "cool_variations"}

Requests ==
    {[isstr |-> TRUE, names |-> <<n>>] : n \in SingleNames}
        \cup {[isstr |-> FALSE, names |-> ns] :
                 ns \in UNION {[1..n -> ListNames] : n \in 0..MaxNames}}

\* The keyword arguments explored.
Configs == {{}, {<<"grid_size", "48">>}}

InitRegistry ==
    /\ BindIdle
    /\ CompositeIdle
    /\ BatchIdle
    /\ CallIdle
    /\ fs = <<>>

\* One call of get_pipeline.
GetPipeline ==
    /\ call = <<>>
    /\ \E request \in Requests, kwargs \in Configs :
          /\ call' = <<request, kwargs>>
          /\ answer' = get_pipeline(request, kwargs)
    /\ UNCHANGED <<bindVars, compVars, batchVars, fs>>

NextRegistry == GetPipeline

SpecRegistry == InitRegistry /\ [][NextRegistry]_vars

\* ----------------------------------------------------- claims on the registry
Called == call # <<>>
RequestNames == call[1].names
UnknownPositions == {k \in 1..Len(RequestNames) : ~Registered(RequestNames[k])}

\* C13: resolving a name that is not registered, alone or as an element of a
\* list, fails with an error that names the offending identifier and lists
\* every registered name; no pipeline is returned.
C13_UnknownNameFails ==
    (Called /\ UnknownPositions # {}) =>
        /\ answer.kind = "ValueError"
        /\ answer.pipelines = <<>>
        /\ \E k \in UnknownPositions : answer.unknown = RequestNames[k]
        /\ \A k \in 1..Len(PIPELINES) :
              \E a \in 1..Len(answer.available) :
                  answer.available[a] = PIPELINES[k][1]

C13_Witness ==
    /\ Called
    /\ ~call[1].isstr
    /\ Len(RequestNames) >= 2
    /\ UnknownPositions = {2}
    /\ answer.kind = "ValueError"
    /\ answer.unknown = RequestNames[2]

\* C14: resolving a list of registered names returns a composite with one
\* freshly constructed member per element, in the given order, duplicates
\* kept, every member constructed from the same configuration; its name is the
\* members' names joined with "+".
C14_ListResolvesToComposite ==
    (Called /\ ~call[1].isstr /\ UnknownPositions = {}) =>
        /\ answer.kind = "composite"
        /\ Len(answer.pipelines) = Len(RequestNames)
        /\ \A k \in 1..Len(answer.pipelines) :
              /\ InstanceName(answer.pipelines[k]) = RequestNames[k]
              /\ answer.pipelines[k].kwargs = call[2]
        /\ \A j, k \in 1..Len(answer.pipelines) :
              j # k => answer.pipelines[j].id # answer.pipelines[k].id
        /\ get_name(answer) = Join(RequestNames, "+")

C14_Witness ==
    /\ Called
    /\ ~call[1].isstr
    /\ RequestNames = <<"mosaic", "glitch_art", "mosaic">>
    /\ call[2] # {}
    /\ answer.kind = "composite"
    /\ get_name(answer) = <<"mosaic", "+", "glitch_art", "+", "mosaic">>

\* C15: for every name n of the registry, resolving the single name n returns
\* a non-composite pipeline constructed with the supplied configuration whose
\* get_name() is n.
C15_SingleNameResolves ==
    (Called /\ call[1].isstr /\ Registered(RequestNames[1])) =>
        /\ answer.kind = "pipeline"
        /\ Len(answer.pipelines) = 1
        /\ answer.pipelines[1].kwargs = call[2]
        /\ get_name(answer) = <<RequestNames[1]>>

C15_Witness ==
    /\ Called
    /\ call[1].isstr
    /\ RequestNames = <<"origami_fold">>
    /\ call[2] # {}
    /\ answer.kind = "pipeline"
    /\ answer.pipelines[1].cls = "OrigamiFoldPipeline"

\* ------------------------------------------------------------- output names
\* get_output_extension of a pipeline class: no class overrides the base's
\* ".png".
ClassOutputExtension(cls) == <<".", "png">>

\* Pipeline.get_output_extension; a composite answers with its last member's.
get_output_extension(p) ==
    IF p.kind = "composite"
    THEN ClassOutputExtension(p.pipelines[Len(p.pipelines)].cls)
    ELSE ClassOutputExtension(p.pipelines[1].cls)

\* A suffix built from get_name(), "+" included.
get_output_suffix_from_name(p) == <<"_">> \o get_name(p)

\* Pipeline.get_output_suffix: f"_{self.get_name()}"; the composite joins its
\* members' names with "_".
get_output_suffix(p) ==
    IF p.kind = "composite"
    THEN <<"_">> \o Join(MemberNameList(p.pipelines), "_")
    ELSE <<"_">> \o get_name(p)

\* f"{stem}{pipeline.get_output_suffix()}{pipeline.get_output_extension()}"
OutputName(stem, p) == stem \o get_output_suffix(p) \o get_output_extension(p)

\* ------------------------------------------------------------ batch drivers
\* The number of entries of a batch.
MaxFiles == 3

InputFolder == <<"in">>
OutputFolder == <<"out">>
UploadFolder == <<"uploads">>
WebOutputFolder == <<"outputs">>

\* image_extensions of the command line driver.
image_extensions ==
    {<<".", e>> : e \in {"jpg", "jpeg", "png", "bmp", "tiff", "tif", "webp"}}

\* str.split(",") and str.strip() on the --pipeline argument.
RECURSIVE SplitComma(_)
SplitComma(tokens) ==
    LET n == LastIndexOf(tokens, ",")
    IN  IF n = 0 THEN <<tokens>>
        ELSE Append(SplitComma(SubSeq(tokens, 1, n - 1)),
                    SubSeq(tokens, n + 1, Len(tokens)))

RECURSIVE Strip(_)
Strip(piece) ==
    IF piece # <<>> /\ piece[1] = " " THEN Strip(Tail(piece))
    ELSE IF piece # <<>> /\ piece[Len(piece)] = " "
         THEN Strip(SubSeq(piece, 1, Len(piece) - 1))
         ELSE piece

\* The text of one name; the empty text is the name "".
NameOf(piece) == IF piece = <<>> THEN "" ELSE piece[1]

\* pipeline_list of the command line driver: a list when the argument holds
\* a comma, the argument itself otherwise.
ParsePipelineNames(tokens) ==
    IF LastIndexOf(tokens, ",") > 0
    THEN [isstr |-> FALSE,
          names |-> LET pieces == SplitComma(tokens)
                    IN  [k \in 1..Len(pieces) |-> NameOf(Strip(pieces[k]))]]
    ELSE [isstr |-> TRUE, names |-> <<NameOf(tokens)>>]

\* original_name.rsplit('.', 1)[0]
RSplitBase(name) ==
    LET n == LastIndexOf(name, ".")
    IN  IF n = 0 THEN name ELSE SubSeq(name, 1, n - 1)

\* The file names a batch is explored with.
FileNames ==
    {<<"a", ".", "jpg">>, <<"a", ".", "png">>, <<"b", ".", "PNG">>,
     <<"notes", ".", "txt">>}

\* The --pipeline arguments and the pipeline lists of a web request.
CliPipelineArgs ==
    {<<"mosaic">>, <<"mosaic", ",", "glitch_art">>,
     <<"glitch_art", ",", " ", "mosaic", ",", "glitch_art">>,
     <<"unknown_name">>, <<"mosaic", ",">>}
WebPipelineSteps ==
    {<<>>, <<"mosaic">>, <<"mosaic", "glitch_art">>, <<"mosaic", "unknown_name">>}

\* Listings without repetition, as iterdir() gives them.
FileLists ==
    {fl \in UNION {[1..n -> FileNames] : n \in 0..MaxFiles} :
        \A j, k \in 1..Len(fl) : j # k => fl[j] # fl[k]}

\* filename as the upload endpoint stores it.
StoredName(name) == <<"1700000000", "_">> \o name

Batches ==
    {[front |-> "cli", files |-> fl, pipeline |-> arg] :
        fl \in FileLists, arg \in CliPipelineArgs}
    \cup {[front |-> "web", files |-> fl, pipeline |-> steps] :
            fl \in FileLists, steps \in WebPipelineSteps}

\* Where entry k of the batch is read from.
BatchInput(b, k) ==
    IF b.front = "cli"
    THEN PathJoin(InputFolder, b.files[k])
    ELSE PathJoin(UploadFolder, StoredName(b.files[k]))

\* The folder holds what the listing names; of the uploads a request names,
\* one may be gone.
BatchInitialFs(b) ==
    LET inputs == {BatchInput(b, k) : k \in 1..Len(b.files)}
    IN  IF b.front = "cli"
        THEN {[q \in inputs |-> FileContent("jpg", <<1, 1>>)]}
        ELSE {[q \in D |-> FileContent("jpg", <<1, 1>>)] :
                 D \in {inputs} \cup {inputs \ {gone} : gone \in inputs}}

\* The request get_pipeline is called with.
BatchRequest(b) ==
    IF b.front = "cli"
    THEN ParsePipelineNames(b.pipeline)
    ELSE [isstr |-> FALSE, names |-> b.pipeline]

\* The output path of entry k under pipeline p.
BatchOutput(b, k, p) ==
    IF b.front = "cli"
    THEN PathJoin(OutputFolder, OutputName(PathStem(BatchInput(b, k)), p))
    ELSE PathJoin(WebOutputFolder, OutputName(RSplitBase(b.files[k]), p))

\* The condition under which the loop body works on entry k.
Eligible(b, f, k) ==
    IF b.front = "cli"
    THEN LowerSeq(PathSuffix(BatchInput(b, k))) \in image_extensions
    ELSE Exists(f, BatchInput(b, k))

\* A handler that gives the batch up.
OnException_abort(front) == "aborted"

\* except Exception: the message is printed and the loop goes on.
OnException(front) == "loop"

\* The files a pipeline run leaves when every member saved: the members
\* before the last write next to the output, the last writes the output.
RECURSIVE WriteOutputs(_, _, _, _)
WriteOutputs(f, p, out, idx) ==
    IF idx >= Len(p.pipelines) THEN f
    ELSE WriteOutputs(
             WriteFile(f,
                       IF p.kind = "composite"
                       THEN CurrentOutput(out, idx, MemberNameList(p.pipelines))
                       ELSE out,
                       FileContent("png", <<1, 1>>)),
             p, out, idx + 1)

\* Before a driver is called: nothing read, nothing written.
InitBatch ==
    /\ BindIdle
    /\ CompositeIdle
    /\ CallIdle
    /\ BatchIdle
    /\ fs = <<>>

\* process_images is entered, from the command line over an input folder or
\* from a request to /api/process over uploaded files.
StartBatch ==
    /\ bpc = "idle"
    /\ \E b \in Batches :
          /\ batch' = b
          /\ fs' \in BatchInitialFs(b)
    /\ bpc' = "start"
    /\ UNCHANGED <<bindVars, compVars, callVars, bi, visited, processed_count>>

\* The command line driver resolves its pipeline once, before the loop, and
\* returns False when that fails.
ResolveCli ==
    /\ bpc = "start"
    /\ batch.front = "cli"
    /\ call' = <<BatchRequest(batch), {}>>
    /\ answer' = get_pipeline(call'[1], call'[2])
    /\ bpc' = IF answer'.kind = "ValueError" THEN "failed" ELSE "loop"
    /\ bi' = 1
    /\ UNCHANGED <<bindVars, compVars, fs, batch, visited, processed_count>>

\* The web endpoint answers 400 to a request without files or without steps.
ValidateWeb ==
    /\ bpc = "start"
    /\ batch.front = "web"
    /\ bpc' = IF batch.files = <<>> \/ batch.pipeline = <<>> THEN "rejected" ELSE "loop"
    /\ bi' = 1
    /\ UNCHANGED <<bindVars, compVars, callVars, fs, batch, visited, processed_count>>

InLoop == bpc = "loop" /\ bi <= Len(batch.files)

\* The pipeline the loop body works with: the one resolved before the loop,
\* or the one the web endpoint resolves for each entry.
BatchPipeline ==
    IF batch.front = "cli" THEN answer ELSE get_pipeline(BatchRequest(batch), {})

Visit(out, outcome, counted) ==
    Append(visited, [index |-> bi, file |-> batch.files[bi], output |-> out,
                     outcome |-> outcome, counted |-> counted])

\* A run that loses the first member of the pipeline it ran.
PipelineAfterRun_pops(p) ==
    IF p = <<>> THEN p ELSE [p EXCEPT !.pipelines = Tail(@)]

\* The pipeline object after process_image: no process_image, helper method
\* or unit assigns a field of self, and the composite only reads its list.
PipelineAfterRun(p) == p

\* An entry the loop passes over: not an image extension, or no such upload.
SkipFile ==
    /\ InLoop
    /\ ~Eligible(batch, fs, bi)
    /\ bi' = bi + 1
    /\ UNCHANGED <<bindVars, compVars, callVars, fs, batch, bpc, visited, processed_count>>

\* process_image returned and the output was written.
ProcessSaved ==
    /\ InLoop
    /\ Eligible(batch, fs, bi)
    /\ BatchPipeline.kind # "ValueError"
    /\ LET out == BatchOutput(batch, bi, BatchPipeline)
       IN  /\ fs' = WriteOutputs(fs, BatchPipeline, out, 0)
           /\ visited' = Visit(out, "saved", TRUE)
    /\ processed_count' = processed_count + 1
    /\ bi' = bi + 1
    /\ answer' = PipelineAfterRun(answer)
    /\ UNCHANGED <<bindVars, compVars, call, batch, bpc>>

\* process_image returned, its chain having ended in an Error value: nothing
\* was written. The command line counts the image, the web endpoint finds no
\* output file and leaves it out of the results.
ProcessError ==
    /\ InLoop
    /\ Eligible(batch, fs, bi)
    /\ BatchPipeline.kind # "ValueError"
    /\ LET out == BatchOutput(batch, bi, BatchPipeline)
           counted == batch.front = "cli" \/ Exists(fs, out)
       IN  /\ visited' = Visit(out, "error", counted)
           /\ processed_count' = IF counted THEN processed_count + 1 ELSE processed_count
    /\ bi' = bi + 1
    /\ answer' = PipelineAfterRun(answer)
    /\ UNCHANGED <<bindVars, compVars, call, fs, batch, bpc>>

\* process_image, or for the web endpoint get_pipeline, raised inside the try.
ProcessRaises ==
    /\ InLoop
    /\ Eligible(batch, fs, bi)
    /\ LET out == IF BatchPipeline.kind = "ValueError" THEN NoPath
                  ELSE BatchOutput(batch, bi, BatchPipeline)
       IN  visited' = Visit(out, "raised", FALSE)
    /\ bpc' = OnException(batch.front)
    /\ bi' = bi + 1
    /\ answer' = PipelineAfterRun(answer)
    /\ UNCHANGED <<bindVars, compVars, call, fs, batch, processed_count>>

\* The loop is over: the count is printed, or the results are returned.
FinishBatch ==
    /\ bpc = "loop"
    /\ bi > Len(batch.files)
    /\ bpc' = "done"
    /\ UNCHANGED <<bindVars, compVars, callVars, fs, batch, bi, visited, processed_count>>

NextBatch ==
    \/ StartBatch
    \/ ResolveCli
    \/ ValidateWeb
    \/ FinishBatch
    \/ SkipFile
    \/ ProcessRaises
    \/ ProcessError
    \/ ProcessSaved

SpecBatch == InitBatch /\ [][NextBatch]_vars

\* Each step of a driver is sequential code that runs on, and a pipeline run
\* returns or raises.
SpecBatchLive == SpecBatch /\ WF_vars(NextBatch)

\* ------------------------------------------------- claims on the batch drivers
\* C16: the command line names each output {stem}{suffix}{extension}: for a
\* single pipeline the suffix is "_" and its name, for a composite "_" and the
\* members' names joined with "_" in member order, and the extension is the
\* last member's.
C16_OutputNames ==
    \A k \in 1..Len(visited) :
        batch.front = "cli" =>
            LET request == BatchRequest(batch)
                names == request.names
                stem == PathStem(visited[k].file)
                suffix == IF request.isstr
                          THEN <<"_", names[1]>>
                          ELSE <<"_">> \o Join(names, "_")
                extension == ClassOutputExtension(RegistryClass(names[Len(names)]))
            IN  visited[k].output = PathJoin(OutputFolder, stem \o suffix \o extension)

C16_Witness ==
    /\ bpc = "done"
    /\ batch.front = "cli"
    /\ BatchRequest(batch).names = <<"glitch_art", "mosaic", "glitch_art">>
    /\ Len(visited) >= 1
    /\ visited[1].file = <<"b", ".", "PNG">>
    /\ visited[1].outcome = "saved"
    /\ visited[1].output = <<"out", "/", "b", "_", "glitch_art", "_", "mosaic", "_",
                             "glitch_art", ".", "png">>
    /\ Exists(fs, visited[1].output)

\* The entries among the first n that the loop body works on, in order.
RECURSIVE EligibleUpTo(_)
EligibleUpTo(n) ==
    IF n = 0 THEN <<>>
    ELSE IF Eligible(batch, fs, n) THEN Append(EligibleUpTo(n - 1), n)
         ELSE EligibleUpTo(n - 1)

VisitedIndices == [k \in 1..Len(visited) |-> visited[k].index]

\* C20: in a batch of the command line or of the web endpoint, whatever the
\* outcome of each image, the loop has attempted every image before the one
\* it stands at, in order, and it goes on to the end: the call completes
\* having attempted every image of the batch.
C20_BatchNeverAborted ==
    /\ [](bpc \in {"loop", "done"} => VisitedIndices = EligibleUpTo(bi - 1))
    /\ [](bpc = "loop" =>
            <>(bpc = "done" /\ VisitedIndices = EligibleUpTo(Len(batch.files))))

C20_Witness ==
    /\ bpc = "done"
    /\ batch.front = "web"
    /\ Len(visited) = 3
    /\ visited[1].outcome = "raised"
    /\ visited[2].outcome = "saved"
    /\ visited[3].outcome = "error"

\* ------------------------------------------------------- Save called directly
SpacedSvg == <<"my", " ", "in", ".", "svg">>
SpacedOutSvg == <<"my", " ", "out", ".", "svg">>

\* The output paths and the inputs a Save unit is explored with.
SavePaths == {OutPng, OutSvg, OutJpg, <<"out", "/", "a">>, SpacedOutSvg}
SaveSources == {InSvg, SpacedSvg}
SaveInputs ==
    {PngImage(sz) : sz \in Sizes}
        \cup {SvgImage(src, sz) : src \in SaveSources, sz \in Sizes}
        \cup {ImageError("e0")}

\* Each vector source exists or not.
SaveInitialFs ==
    {[q \in D |-> FileContent("svg", <<1, 1>>)] : D \in SUBSET SaveSources}

InitSave ==
    /\ BindIdle
    /\ CompositeIdle
    /\ BatchIdle
    /\ CallIdle
    /\ fs \in SaveInitialFs

\* Save(outpath)(image): construction, then __call__.
CallSave ==
    /\ call = <<>>
    /\ \E outpath \in SavePaths, image \in SaveInputs :
          LET u == Save(outpath)
              r == Save_call(u, image, fs)
          IN  /\ call' = <<u, image, fs>>
              /\ answer' = r.ret
              /\ fs' = r.fs
    /\ UNCHANGED <<bindVars, compVars, batchVars>>

NextSave == CallSave

SpecSave == InitSave /\ [][NextSave]_vars

\* ------------------------------------------------------------ claims on Save
\* The variant fits the path: a raster for a pixel-format file name, a vector
\* for a ".svg" file name.
SaveMatches(image, outpath) ==
    \/ image.tag = "PngImage" /\ PilFormat(outpath) # "unknown"
    \/ image.tag = "SvgImage" /\ LowerSeq(PathSuffix(outpath)) = <<".", "svg">>

\* C17: Save gives an Error value and writes no file whenever its input is an
\* Error or the input's variant does not fit the output path's extension.
C17_SaveRejectsMismatch ==
    Called =>
        LET u == call[1]
            image == call[2]
            before == call[3]
        IN  (image.tag = "ImageError" \/ ~SaveMatches(image, u.outpath)) =>
                /\ answer.w # "raised"
                /\ answer.image.tag = "ImageError"
                /\ fs = before

\* C18: saving keeps the content, for every source and target path: a raster
\* saved to a ".png" path is in the file at that path, a vector saved to a
\* ".svg" path leaves there a copy of its source, which stays as it was, and
\* Save returns its input.
C18_SaveContentPreserving ==
    Called =>
        LET u == call[1]
            image == call[2]
            before == call[3]
            p == u.outpath
        IN  /\ (image.tag = "PngImage" /\ PilFormat(p) = "png") =>
                  /\ answer = Bare(image)
                  /\ Exists(fs, p)
                  /\ fs[p] = FileContent("png", image.size)
            /\ (/\ image.tag = "SvgImage"
                /\ LowerSeq(PathSuffix(p)) = <<".", "svg">>
                /\ Exists(before, image.svg_filepath)) =>
                  /\ answer = Bare(image)
                  /\ Exists(fs, p)
                  /\ fs[p] = before[image.svg_filepath]
                  /\ fs[image.svg_filepath] = before[image.svg_filepath]

\* ---------------------------------------------------- failures in the chain
\* C19: bind on an MI value never raises to its caller; a failing conversion,
\* external tool or unit comes back as an ImageError value.
C19_BindNeverRaises ==
    \A k \in 1..pos :
        hist[k].w = "MI" => Result(k).w # "raised"

\* --------------------------------------------- more claims on the batch drivers
\* C25: the command line counts an image as processed only if its pipeline
\* run ended in a value that is not an Error and its output file was written.
C25_CountedOnlyIfSaved ==
    \A k \in 1..Len(visited) :
        (batch.front = "cli" /\ visited[k].counted) =>
            /\ visited[k].outcome = "saved"
            /\ Exists(fs, visited[k].output)

\* C28: in one run of the command line, two distinct input image files never
\* get the same output path.
C28_OutputPathsDistinct ==
    \A j, k \in 1..Len(visited) :
        (batch.front = "cli" /\ visited[j].file # visited[k].file) =>
            visited[j].output # visited[k].output

\* ------------------------------------------------ more claims on the registry
\* C27: resolving a list is all or nothing: with an unregistered element the
\* call fails naming the first such element in list order and returns no
\* composite; otherwise the composite has as many members as the list has
\* elements, the empty list and the list of one included.
C27_ListAllOrNothing ==
    (Called /\ ~call[1].isstr) =>
        IF UnknownPositions # {}
        THEN /\ answer.kind = "ValueError"
             /\ answer.pipelines = <<>>
             /\ \E k \in UnknownPositions :
                   /\ \A j \in UnknownPositions : k <= j
                   /\ answer.unknown = RequestNames[k]
        ELSE /\ answer.kind = "composite"
             /\ Len(answer.pipelines) = Len(RequestNames)

C27_Witness ==
    /\ Called
    /\ ~call[1].isstr
    /\ RequestNames = <<"mosaic", "cool_variations", "unknown_name">>
    /\ answer.kind = "ValueError"
    /\ answer.unknown = "cool_variations"

\* ------------------------------------------------ more claims on the composite
\* C26: a composite of one member has the member's name, output suffix and
\* output extension, calls the member once with the caller's input and output
\* paths, and leaves no intermediate file.
C26_SingleMemberComposite ==
    Len(pipelines) = 1 =>
        LET composite == get_pipeline([isstr |-> FALSE, names |-> pipelines], {})
            member == get_pipeline([isstr |-> TRUE, names |-> pipelines], {})
        IN  /\ get_name(composite) = get_name(member)
            /\ get_output_suffix(composite) = get_output_suffix(member)
            /\ get_output_extension(composite) = get_output_extension(member)
            /\ Len(calls) <= 1
            /\ \A k \in 1..Len(calls) :
                  /\ calls[k].input = input_path
                  /\ calls[k].output = output_path
            /\ cpc = "returned" => Len(calls) = 1
            /\ DOMAIN fs \subseteq InputPaths \cup {output_path}

C26_Witness ==
    /\ Len(pipelines) = 1
    /\ cpc = "returned"
    /\ Len(calls) = 1
    /\ calls[1].outcome = "saved"
    /\ Exists(fs, output_path)

\* C22: processing changes no state of the pipeline: after any number of
\* process_image calls of a command line run, the pipeline's configuration and
\* a composite's members and their order are as get_pipeline constructed them.
C22_PipelineUnchanged ==
    (bpc \in {"loop", "done"} /\ batch.front = "cli") =>
        answer = get_pipeline(call[1], call[2])

C22_Witness ==
    /\ bpc = "done"
    /\ batch.front = "cli"
    /\ answer.kind = "composite"
    /\ Len(answer.pipelines) = 3
    /\ Len(visited) = 3
    /\ visited[1].outcome = "saved"
    /\ visited[2].outcome = "raised"
    /\ visited[3].outcome = "error"

\* ------------------------------------------------- the converters, called
\* What may lie in the working directory before a conversion: files of these
\* names left by an earlier conversion.
StaleFiles ==
    [q \in ScratchFiles |->
        FileContent(IF q = TempPbm THEN "pbm" ELSE IF q = TempSvg THEN "svg" ELSE "png",
                    <<2, 1>>)]

ConvertInitialFs == {[q \in D |-> StaleFiles[q]] : D \in SUBSET ScratchFiles}

InitConvert ==
    /\ BindIdle
    /\ CompositeIdle
    /\ BatchIdle
    /\ CallIdle
    /\ fs \in ConvertInitialFs

\* monochrome_png_to_svg(PngImage, "temp.svg"), as bind calls it.
ToVector ==
    /\ call = <<>>
    /\ \E size \in Sizes, tracer \in TracerOutcomes :
          LET input == PngImage(size)
              r == monochrome_png_to_svg(input, TempSvg, fs, tracer)
          IN  /\ call' = <<[op |-> "toVector", input |-> input, env |-> tracer,
                            before |-> fs]>>
              /\ answer' = <<r>>
              /\ fs' = r.fs
    /\ UNCHANGED <<bindVars, compVars, batchVars>>

\* svg_to_png(SvgImage, "temp.png") on the vector the first conversion returned.
ToRaster ==
    /\ Len(call) = 1
    /\ ~answer[1].raised
    /\ \E rasterizer \in RasterizerOutcomes :
          LET input == answer[1].image
              r == svg_to_png(input, TempPng, fs, rasterizer)
          IN  /\ call' = Append(call, [op |-> "toRaster", input |-> input,
                                       env |-> rasterizer, before |-> fs])
              /\ answer' = Append(answer, r)
              /\ fs' = r.fs
    /\ UNCHANGED <<bindVars, compVars, batchVars>>

NextConvert ==
    \/ ToVector
    \/ ToRaster

SpecConvert == InitConvert /\ [][NextConvert]_vars

\* ---------------------------------------------------- claims on the converters
\* C23: toVector returns an Error whenever the tracer fails or writes no
\* output file; it never returns a Vector at a path the tracer did not write.
C23_ToVectorFailsAsError ==
    Len(call) >= 1 =>
        /\ call[1].env # "ok" =>
              /\ ~answer[1].raised
              /\ answer[1].image.tag = "ImageError"
        /\ (~answer[1].raised /\ answer[1].image.tag = "SvgImage") =>
              answer[1].image.svg_filepath \in answer[1].touched

\* C24: a raster of width w and height h that is converted to a vector and
\* back is a raster of width w and height h; the vector in between carries
\* (w, h) as its logical dimensions.
C24_RoundTripKeepsDimensions ==
    Len(call) >= 1 =>
        /\ ~answer[1].raised => answer[1].image.size = call[1].input.size
        /\ (Len(call) = 2 /\ ~answer[2].raised) =>
              /\ answer[2].image.tag = "PngImage"
              /\ answer[2].image.size = call[1].input.size

C24_Witness ==
    /\ Len(call) = 2
    /\ call[1].input = PngImage(<<1, 2>>)
    /\ call[1].env = "ok"
    /\ call[2].env = "ok"
    /\ ~answer[2].raised
    /\ answer[2].image.size = <<1, 2>>
    /\ Exists(fs, TempPng)

\* C30: on every exit path of monochrome_png_to_svg, temp.pbm is gone
\* afterwards.
C30_ScratchBitmapRemoved ==
    Len(call) >= 1 => ~Exists(answer[1].fs, TempPbm)

\* ------------------------------------- two invocations in one working directory
\* Each invocation runs MI(PngImage(img)).bind(Save(out), mode=SvgImage) on its
\* own image and its own output path; the statements of monochrome_png_to_svg
\* and of the unit are the steps that interleave. The tracer is installed and
\* works: it traces whatever temp.pbm holds when it runs.
Invocations == {1, 2}

InvocationOutput(p) ==
    PathJoin(OutputFolder, <<IF p = 1 THEN "a" ELSE "b", ".", "svg">>)

Invocation(p, size) ==
    [pc |-> "save_pbm", image |-> PngImage(size), out |-> InvocationOutput(p)]

InitConcurrent ==
    /\ BindIdle
    /\ CompositeIdle
    /\ BatchIdle
    /\ fs = <<>>
    /\ \E s1 \in Sizes, s2 \in Sizes :
          /\ call = <<Invocation(1, s1), Invocation(2, s2)>>
          /\ answer = <<MI(PngImage(s1)), MI(PngImage(s2))>>

\* img.save(pbm_file)
SavePbm(p) ==
    /\ call[p].pc = "save_pbm"
    /\ fs' = WriteFile(fs, TempPbm, FileContent("pbm", call[p].image.size))
    /\ call' = [call EXCEPT ![p].pc = "trace"]
    /\ UNCHANGED <<bindVars, compVars, batchVars, answer>>

\* subprocess.run(["potrace", ..., "temp.pbm", "-s", "-o", "temp.svg"]): the
\* tracer writes the trace of the bitmap it finds, or nothing when there is no
\* bitmap; its exit status is not looked at.
RunTracer(p) ==
    /\ call[p].pc = "trace"
    /\ fs' = IF Exists(fs, TempPbm)
             THEN WriteFile(fs, TempSvg, FileContent("svg", fs[TempPbm].size))
             ELSE fs
    /\ call' = [call EXCEPT ![p].pc = "remove"]
    /\ UNCHANGED <<bindVars, compVars, batchVars, answer>>

\* os.remove(pbm_file), which raises FileNotFoundError when the file is gone.
RemovePbm(p) ==
    /\ call[p].pc = "remove"
    /\ IF Exists(fs, TempPbm)
       THEN /\ fs' = RemoveFile(fs, TempPbm)
            /\ call' = [call EXCEPT ![p].pc = "unit"]
            /\ UNCHANGED answer
       ELSE /\ fs' = fs
            /\ call' = [call EXCEPT ![p].pc = "done"]
            /\ answer' = [answer EXCEPT ![p] = Raised("FileNotFoundError")]
    /\ UNCHANGED <<bindVars, compVars, batchVars>>

\* return SvgImage("temp.svg", img.size), and f(...) of bind on it.
ApplyUnit(p) ==
    /\ call[p].pc = "unit"
    /\ LET r == Save_call(Save(call[p].out),
                          SvgImage(TempSvg, call[p].image.size), fs)
       IN  /\ fs' = r.fs
           /\ answer' = [answer EXCEPT ![p] = r.ret]
    /\ call' = [call EXCEPT ![p].pc = "done"]
    /\ UNCHANGED <<bindVars, compVars, batchVars>>

NextConcurrent ==
    \E p \in Invocations :
        \/ SavePbm(p)
        \/ RunTracer(p)
        \/ RemovePbm(p)
        \/ ApplyUnit(p)

SpecConcurrent == InitConcurrent /\ [][NextConcurrent]_vars

\* The same bind, run with nothing else going on in the working directory.
RunAlone(p) == BindPng(call[p].image, Save(call[p].out), <<>>, "ok")

\* C21: two invocations on different images in one working directory do not
\* interact: each ends with the result and the output file content it has
\* when it runs alone, and neither fails because of the other.
C21_InvocationsDoNotInteract ==
    \A p \in Invocations :
        call[p].pc = "done" =>
            /\ answer[p] = RunAlone(p).ret
            /\ Exists(fs, call[p].out)
            /\ fs[call[p].out] = RunAlone(p).fs[call[p].out]

\* ------------------------------------------------------- the upload endpoint
MaxUploads == 2
MaxClock == 1

\* The requests that can be in the handler at the same time.
UploadRequests == {1, 2}

\* ALLOWED_EXTENSIONS of the web server.
ALLOWED_EXTENSIONS ==
    {<<e>> : e \in {"png", "jpg", "jpeg", "gif", "bmp", "tiff", "webp"}}

\* allowed_file: '.' in filename and filename.rsplit('.', 1)[1].lower() in
\* ALLOWED_EXTENSIONS
allowed_file(filename) ==
    LET n == LastIndexOf(filename, ".")
    IN  /\ n > 0
        /\ LowerSeq(SubSeq(filename, n + 1, Len(filename))) \in ALLOWED_EXTENSIONS

\* werkzeug's secure_filename on the pieces of a name: path separators and
\* blanks become "_"; letters, digits, "_" and "." stay.
secure_filename(filename) ==
    [k \in 1..Len(filename) |->
        IF filename[k] \in {" ", "/"} THEN "_" ELSE filename[k]]

\* str(int(time.time())): the clock in whole seconds.
Timestamp(t) == ToString(1700000000 + t)

\* The names the files of a request carry.
UploadNames ==
    {<<"a", "_", "b", ".", "png">>, <<"a", " ", "b", ".", "png">>,
     <<"notes", ".", "txt">>}

UploadLists == UNION {[1..n -> UploadNames] : n \in 1..MaxUploads}

\* The bytes of file k of request r, told apart from every other upload.
UploadContent(r, k) == FileContent("upload", <<r, k>>)

\* The latest second any upload has read from the clock; the clock does not
\* run backwards.
LastTime ==
    LET seen == UNION {{answer[r][k].timestamp : k \in DOMAIN answer[r]} :
                       r \in DOMAIN answer}
    IN  IF seen = {} THEN 0 ELSE CHOOSE t \in seen : \A u \in seen : u <= t

InitUpload ==
    /\ BindIdle
    /\ CompositeIdle
    /\ BatchIdle
    /\ CallIdle
    /\ fs = <<>>

\* A POST to /api/upload arrives: files = request.files.getlist('files'),
\* uploaded_files = [].
ReceiveUpload ==
    /\ Len(call) < Cardinality(UploadRequests)
    /\ \E files \in UploadLists :
          call' = Append(call, [files |-> files, pos |-> 1, pc |-> "loop"])
    /\ answer' = Append(answer, <<>>)
    /\ UNCHANGED <<bindVars, compVars, batchVars, fs>>

\* The loop body for a file that passes the if: the name is secured and
\* prefixed with the clock's second, the file is saved and reported.
StoreUpload(r) ==
    /\ r \in DOMAIN call
    /\ call[r].pc = "loop"
    /\ call[r].pos <= Len(call[r].files)
    /\ allowed_file(call[r].files[call[r].pos])
    /\ \E t \in LastTime..MaxClock :
          LET original == call[r].files[call[r].pos]
              filename == <<Timestamp(t), "_">> \o secure_filename(original)
              filepath == PathJoin(UploadFolder, filename)
              content == UploadContent(r, call[r].pos)
          IN  /\ fs' = WriteFile(fs, filepath, content)
              /\ answer' = [answer EXCEPT ![r] =
                               Append(@, [filename |-> filename,
                                          original_name |-> original,
                                          size |-> content.size,
                                          timestamp |-> t])]
    /\ call' = [call EXCEPT ![r].pos = @ + 1]
    /\ UNCHANGED <<bindVars, compVars, batchVars>>

\* The loop body for a file that does not pass the if.
RejectUpload(r) ==
    /\ r \in DOMAIN call
    /\ call[r].pc = "loop"
    /\ call[r].pos <= Len(call[r].files)
    /\ ~allowed_file(call[r].files[call[r].pos])
    /\ call' = [call EXCEPT ![r].pos = @ + 1]
    /\ UNCHANGED <<bindVars, compVars, batchVars, answer, fs>>

\* return jsonify({'success': True, 'files': uploaded_files})
RespondUpload(r) ==
    /\ r \in DOMAIN call
    /\ call[r].pc = "loop"
    /\ call[r].pos > Len(call[r].files)
    /\ call' = [call EXCEPT ![r].pc = "responded"]
    /\ UNCHANGED <<bindVars, compVars, batchVars, answer, fs>>

NextUpload ==
    \/ ReceiveUpload
    \/ \E r \in UploadRequests :
          \/ StoreUpload(r)
          \/ RejectUpload(r)
          \/ RespondUpload(r)

SpecUpload == InitUpload /\ [][NextUpload]_vars

\* C29: two uploaded files, of one request or of two requests in the handler
\* at the same time, never get the same stored name, and every stored upload
\* still holds its own bytes.
C29_StoredNamesDistinct ==
    \A r1, r2 \in DOMAIN answer :
        \A k1 \in DOMAIN answer[r1], k2 \in DOMAIN answer[r2] :
            /\ <<r1, k1>> # <<r2, k2>> =>
                  answer[r1][k1].filename # answer[r2][k2].filename
            /\ fs[PathJoin(UploadFolder, answer[r1][k1].filename)].size
                  = answer[r1][k1].size

====
